---- MODULE Spec2Model ----
(***************************************************************************)
(* hf-space-vercel-proxy: the /api/ask handler in its four revisions.      *)
(*   "ask"      src/api/ask.js            (gradio client, then HTTP probes, *)
(*                                         one model after the other)      *)
(*   "part000"  src/unnamed/part_000      (cached gradio client,            *)
(*                                         Promise.all)                    *)
(*   "part001a" src/unnamed/part_001:1    (single POST per backend, gemini) *)
(*   "part001b" src/unnamed/part_001:133  (HTTP probes, Promise.all)        *)
(* One step of the model is one turn of the Node event loop: an I/O event   *)
(* (request arrival, a promise of the network settling, a timer firing)     *)
(* together with all the synchronous code and microtasks it triggers.       *)
(***************************************************************************)
EXTENDS Integers, Sequences, FiniteSets, TLC

(***************************************************************************)
(* Bounds of the model.                                                    *)
(***************************************************************************)
MaxModels == 2     \* longest models list a request carries
NumReqs == 2       \* request slots of one process

(***************************************************************************)
(* JavaScript values.                                                      *)
(***************************************************************************)
Undef == [t |-> "undefined"]
Null == [t |-> "null"]
Str(s) == [t |-> "string", v |-> s]
Num(n) == [t |-> "number", v |-> n]
Arr(s) == [t |-> "array", v |-> s]
\* an object, by the two properties the handlers read: data, and the text of
\* choices[0].message.content (Undef: property absent)
Obj(d, c) == [t |-> "object", data |-> d, content |-> c]

Truthy(x) ==
  CASE x.t = "undefined" -> FALSE
    [] x.t = "null" -> FALSE
    [] x.t = "string" -> x.v # ""
    [] x.t = "number" -> x.v # 0
    [] OTHER -> TRUE

\* a || b
Or(a, b) == IF Truthy(a) THEN a ELSE b

IsObject(x) == x.t = "object"
\* x.data for a value that is not null or undefined
DataOf(x) == IF IsObject(x) THEN x.data ELSE Undef

NumText(n) ==
  CASE n = 0 -> "0"
    [] n = 7 -> "7"
    [] n = 200 -> "200"
    [] n = 404 -> "404"
    [] n = 422 -> "422"
    [] n = 500 -> "500"
    [] OTHER -> "NaN"

RECURSIVE JsonText(_)
RECURSIVE JsonItems(_)
\* JSON.stringify(x) for x other than undefined
JsonText(x) ==
  CASE x.t = "null" -> "null"
    [] x.t = "undefined" -> "null"
    [] x.t = "string" -> "\"" \o x.v \o "\""
    [] x.t = "number" -> NumText(x.v)
    [] x.t = "array" -> "[" \o JsonItems(x.v) \o "]"
    [] OTHER ->
         IF x.data.t = "undefined" /\ x.content.t = "undefined" THEN "{}"
         ELSE IF x.data.t = "undefined"
              THEN "{\"choices\":[{\"message\":{\"content\":" \o JsonText(x.content) \o "}}]}"
              ELSE "{\"data\":" \o JsonText(x.data) \o "}"
JsonItems(s) ==
  IF Len(s) = 0 THEN ""
  ELSE IF Len(s) = 1 THEN JsonText(s[1])
       ELSE JsonText(s[1]) \o "," \o JsonItems(Tail(s))

\* JSON.stringify(x): undefined stays undefined
JSONstringify(x) == IF x.t = "undefined" THEN Undef ELSE Str(JsonText(x))

RECURSIVE StringText(_)
RECURSIVE JoinItems(_)
\* String(x)
StringText(x) ==
  CASE x.t = "undefined" -> "undefined"
    [] x.t = "null" -> "null"
    [] x.t = "string" -> x.v
    [] x.t = "number" -> NumText(x.v)
    [] x.t = "array" -> JoinItems(x.v)
    [] OTHER -> "[object Object]"
JoinItems(s) ==
  IF Len(s) = 0 THEN ""
  ELSE IF Len(s) = 1
       THEN (IF s[1].t \in {"undefined", "null"} THEN "" ELSE StringText(s[1]))
       ELSE (IF s[1].t \in {"undefined", "null"} THEN "" ELSE StringText(s[1]))
            \o "," \o JoinItems(Tail(s))

(***************************************************************************)
(* Errors: what a rejected promise carries.  An Error has a message (and,  *)
(* for an axios error of a non-2xx reply, the response); a library may     *)
(* also reject with no reason at all (undefined).                          *)
(***************************************************************************)
Err(m) == [t |-> "Error", message |-> m, status |-> 0, data |-> Undef]
AxiosErr(m, st, d) == [t |-> "Error", message |-> m, status |-> st, data |-> d]
NoReason == [t |-> "undefined", message |-> "", status |-> 0, data |-> Undef]
TypeErr == Err("Cannot read properties of undefined (reading 'message')")

\* reading err.message succeeds unless err is null or undefined
Readable(err) == err.t # "undefined"
\* String(err) of an Error: its name alone when the message is empty
ErrString(err) == IF err.message = "" THEN "Error" ELSE "Error: " \o err.message
\* String(err.message || err)   and   err.message || String(err)
ErrText(err) == IF err.message # "" THEN err.message ELSE ErrString(err)

(***************************************************************************)
(* Reply normalisation.                                                    *)
(***************************************************************************)
ContentOf(x) == IF IsObject(x) THEN x.content ELSE Undef
NonEmptyArray(x) == x.t = "array" /\ Len(x.v) > 0

\* src/api/ask.js:134-139, the reply of client.predict
NormalizeClientReply(resp) ==
  IF resp.t = "string" THEN resp
  ELSE IF Truthy(resp) /\ Truthy(DataOf(resp))
       THEN IF NonEmptyArray(DataOf(resp)) THEN Str(StringText(DataOf(resp).v[1]))
            ELSE IF DataOf(resp).t = "string" THEN DataOf(resp)
            ELSE JSONstringify(DataOf(resp))
       ELSE JSONstringify(resp)

\* src/unnamed/part_000:48-54, callHfChat
NormalizeChatReply(res) ==
  IF res.t \in {"null", "undefined"} THEN Str("")
  ELSE IF res.t = "string" THEN res
  ELSE IF Truthy(DataOf(res)) /\ NonEmptyArray(DataOf(res))
       THEN Str(StringText(DataOf(res).v[1]))
  ELSE IF Truthy(DataOf(res)) /\ DataOf(res).t = "string" THEN DataOf(res)
  ELSE JSONstringify(res)

\* src/api/ask.js:80-84 and src/unnamed/part_001:195-201, the body of a 2xx reply
NormalizeHttpReply(d) ==
  IF Truthy(d) /\ NonEmptyArray(DataOf(d)) THEN Str(StringText(DataOf(d).v[1]))
  ELSE IF Truthy(d) /\ DataOf(d).t = "string" THEN DataOf(d)
  ELSE IF d.t = "string" THEN d
  ELSE JSONstringify(d)

\* src/unnamed/part_001:37-41, callHfSpace of the first revision: the raw value
RawSpaceReply(d) ==
  IF Truthy(d) /\ NonEmptyArray(DataOf(d)) THEN DataOf(d).v[1] ELSE d

\* src/unnamed/part_001:116-124, a fulfilled result made text
NormalizeResult(x) == IF x.t = "string" THEN x ELSE JSONstringify(x)

\* r.data?.choices?.[0]?.message?.content ?? JSON.stringify(r.data)
OpenAIText(d) ==
  IF ContentOf(d).t \notin {"null", "undefined"} THEN ContentOf(d) ELSE JSONstringify(d)

(***************************************************************************)
(* The request: method and body.                                           *)
(***************************************************************************)
Body(q, p, m, ms) == [t |-> "object", query |-> q, prompt |-> p, message |-> m, models |-> ms]
\* const body = req.body || {}
BodyOrEmpty(b) == IF b.t = "object" THEN b ELSE Body(Undef, Undef, Undef, Undef)

\* ?? in place of ||: the first field that is present, whatever it holds
ExtractQueryFirstPresent(b) ==
  IF BodyOrEmpty(b).query.t \notin {"undefined", "null"} THEN BodyOrEmpty(b).query
  ELSE IF BodyOrEmpty(b).prompt.t \notin {"undefined", "null"} THEN BodyOrEmpty(b).prompt
  ELSE IF Truthy(BodyOrEmpty(b).message) THEN BodyOrEmpty(b).message ELSE Null
\* body.query || body.prompt || (body.message ? body.message : null)
ExtractQuery(b) ==
  Or(Or(BodyOrEmpty(b).query, BodyOrEmpty(b).prompt),
     IF Truthy(BodyOrEmpty(b).message) THEN BodyOrEmpty(b).message ELSE Null)

\* const { query, models } = req.body || {}      (part_001, first revision)
DestructureQuery(b) == BodyOrEmpty(b).query

\* the typeof test left out
ValidQueryAnyType(q) == Truthy(q)
\* !(!query || typeof query !== 'string')
ValidQuery(q) == Truthy(q) /\ q.t = "string"

\* the length test left out: an empty list is taken as it is
SelectModelsAnyArray(b) ==
  IF BodyOrEmpty(b).models.t = "array" THEN BodyOrEmpty(b).models.v ELSE <<"hf">>
\* Array.isArray(body.models) && body.models.length ? body.models : ['hf']
SelectModels(b) ==
  IF BodyOrEmpty(b).models.t = "array" /\ Len(BodyOrEmpty(b).models.v) > 0
  THEN BodyOrEmpty(b).models.v
  ELSE <<"hf">>

(***************************************************************************)
(* Configuration (process.env) and the remote Space.                       *)
(*   space: "unset" when HF_SPACE_URL is empty, otherwise how the Space    *)
(*   behind the URL answers each (endpoint, payload) pair.                 *)
(***************************************************************************)
Impls == {"ask", "part000", "part001a", "part001b"}
Spaces == {"unset", "down", "gone", "first", "chat", "late"}

Configs(h) ==
  { [space |-> s, openaiKey |-> k, gemini |-> g] :
      s \in (IF h = "part000" THEN {"unset"}
             ELSE IF h = "part001b" THEN Spaces \ {"first"}
             ELSE Spaces \ {"late"}),
      k \in BOOLEAN,
      g \in (IF h = "part001a" THEN BOOLEAN ELSE {FALSE}) }

EndpointPaths == <<"/run/predict", "/api/predict", "/predict", "/run/predict/", "/api/predict/">>
PayloadShapes == <<"data", "data+fn_index", "input", "inputs", "message", "text">>
\* endpoints.length of callHfHttpFallback, of callHfSpace (second revision)
NumEndpoints(h) == IF h = "ask" THEN 3 ELSE 5
NumProbes(h) == NumEndpoints(h) * Len(PayloadShapes)
\* the k-th iteration of: for (url of endpoints) for (payload of payloads)
EndpointOf(k) == ((k - 1) \div Len(PayloadShapes)) + 1
PayloadOf(k) == ((k - 1) % Len(PayloadShapes)) + 1
UrlOf(k) == "https://space.hf.space" \o EndpointPaths[EndpointOf(k)]

\* the shapes of reply a Space is known to give: a plain string, {data:[..]},
\* {data:"s"}, {data:[]}, {data:{}}, {} and null
ReplyShapes ==
  [ string |-> Str("plain"),
    dataArray |-> Obj(Arr(<<Str("a"), Str("b")>>), Undef),
    dataString |-> Obj(Str("s"), Undef),
    dataEmpty |-> Obj(Arr(<<>>), Undef),
    dataObject |-> Obj(Obj(Undef, Undef), Undef),
    noData |-> Obj(Undef, Undef),
    null |-> Null ]

\* what axios.post(url, payload) settles with: status 0 stands for no response
\* (network error or axios timeout); a Space named by a shape answers every
\* POST with that shape
SpaceReply(s, e, p) ==
  CASE s = "down" -> [status |-> 0, data |-> Undef]
    [] s \in DOMAIN ReplyShapes -> [status |-> 200, data |-> ReplyShapes[s]]
    [] s = "gone" -> [status |-> 404, data |-> Str("Not Found")]
    [] s = "first" ->
         IF e = 1 /\ p = 1
         THEN [status |-> 200, data |-> Obj(Arr(<<Str("answer")>>), Undef)]
         ELSE [status |-> 404, data |-> Str("Not Found")]
    [] s = "chat" ->
         IF e = 2 /\ p = 5 THEN [status |-> 200, data |-> Str("plain answer")]
         ELSE IF e = 2 THEN [status |-> 422, data |-> Obj(Undef, Undef)]
         ELSE [status |-> 404, data |-> Str("Not Found")]
    [] OTHER ->
         IF e = 4 /\ p = 1 THEN [status |-> 200, data |-> Obj(Str("late answer"), Undef)]
         ELSE [status |-> 404, data |-> Str("Not Found")]

Is2xx(st) == st >= 200 /\ st < 300
\* the error axios rejects with for a reply that is not 2xx, or for no reply
AxiosErrorOf(rep) ==
  IF rep.status = 0 THEN AxiosErr("Network Error", 0, Undef)
  ELSE AxiosErr("Request failed with status code " \o NumText(rep.status), rep.status, rep.data)
HasResponse(err) == err.status # 0

(***************************************************************************)
(* Backend results and the attempt log of the HTTP probes.                 *)
(***************************************************************************)
Bool(b) == [t |-> "boolean", v |-> b]
\* a BackendResult; a key the code does not set is Undef
Result(m, ok, text, error, debug) ==
  [model |-> m, ok |-> ok, text |-> text, error |-> error, debug |-> debug]
NoRes == [model |-> "", ok |-> Undef, text |-> Undef, error |-> Undef, debug |-> Undef]
UnknownModel(m) == Result(m, Bool(FALSE), Undef, Str("unknown model"), Undef)

\* debug = { client_error, http_attempts }
Debug(ce, ha) == [t |-> "object", client_error |-> ce, http_attempts |-> ha]

\* src/api/ask.js:79 and 87, one entry of attempts
AskAttempt(k, rep) ==
  IF Is2xx(rep.status)
  THEN [ok |-> TRUE, url |-> UrlOf(k), status |-> Num(rep.status), error |-> Undef]
  ELSE [ok |-> FALSE, url |-> UrlOf(k),
        status |-> IF HasResponse(AxiosErrorOf(rep)) THEN Num(rep.status) ELSE Null,
        error |-> IF HasResponse(AxiosErrorOf(rep)) THEN rep.data
                  ELSE Str(ErrText(AxiosErrorOf(rep)))]

\* src/unnamed/part_001:145-158, tryPost
tryPost(k, rep) ==
  IF Is2xx(rep.status)
  THEN [ok |-> TRUE, url |-> UrlOf(k), status |-> Num(rep.status), data |-> rep.data,
        error |-> Undef]
  ELSE [ok |-> FALSE, url |-> UrlOf(k),
        status |-> IF HasResponse(AxiosErrorOf(rep)) THEN Num(rep.status) ELSE Null,
        data |-> Undef,
        error |-> IF HasResponse(AxiosErrorOf(rep)) THEN JSONstringify(rep.data)
                  ELSE Str(ErrText(AxiosErrorOf(rep)))]

\* `attempts` declared inside the outer loop: it starts afresh with every endpoint
AttemptsOfEndpoint(h, s, k) ==
  [j \in 1..(k - (EndpointOf(k) - 1) * Len(PayloadShapes)) |->
     LET n == (EndpointOf(k) - 1) * Len(PayloadShapes) + j
     IN IF h = "ask" THEN AskAttempt(n, SpaceReply(s, EndpointOf(n), PayloadOf(n)))
        ELSE tryPost(n, SpaceReply(s, EndpointOf(n), PayloadOf(n)))]
\* attempts after the k-th POST has settled
Attempts(h, s, k) ==
  [j \in 1..k |->
     IF h = "ask" THEN AskAttempt(j, SpaceReply(s, EndpointOf(j), PayloadOf(j)))
     ELSE tryPost(j, SpaceReply(s, EndpointOf(j), PayloadOf(j)))]

(***************************************************************************)
(* One entry of the models list while it is being served.                  *)
(*   pc: "init"      not started (ask.js: the loop has not reached it)     *)
(*       "import"    ask.js: awaiting import('@gradio/client') or its timer *)
(*       "connect1", "connect2"  ask.js: awaiting Client.connect or timer  *)
(*       "sleep"     ask.js: awaiting sleep(500)                           *)
(*       "client"    part_000: awaiting getClient()                        *)
(*       "predict"   awaiting client.predict('/chat')                      *)
(*       "probe"     awaiting the k-th axios.post of the probes            *)
(*       "http"      awaiting the one axios.post of the backend            *)
(*       "done"      its promise is fulfilled with res                     *)
(*       "rejected"  an exception left its catch block                     *)
(*   net: network calls started on its behalf                              *)
(***************************************************************************)
Task(m) == [model |-> m, pc |-> "init", k |-> 0, cerr |-> Null, res |-> NoRes, net |-> 0]
Done(t, res) == [t EXCEPT !.pc = "done", !.res = res]
Rejected(t) == [t EXCEPT !.pc = "rejected"]
Await(t, pc) == [t EXCEPT !.pc = pc, !.net = @ + 1]

(***************************************************************************)
(* src/api/ask.js: the hf entry.                                           *)
(***************************************************************************)
\* lines 147-161, once debug.client_error is set: callHfHttpFallback starts
AskFallbackMissingUrl(t) ==
  Done(t, Result("hf", Bool(FALSE), Undef, Str("HF calls failed"),
                 Debug(t.cerr, Str(ErrString(Err("HF_SPACE_URL not configured for HTTP fallback"))))))
AskFallback(c, t) ==
  IF c.space = "unset" THEN AskFallbackMissingUrl(t)
  ELSE [Await(t, "probe") EXCEPT !.k = 1]

\* lines 141-144: catch (err) { debug.client_error = String(err.message || err) }
AskCatch(c, t, err) ==
  IF Readable(err) THEN AskFallback(c, [t EXCEPT !.cerr = Str(ErrText(err))])
  ELSE Rejected(t)

\* lines 131-140: the reply of predict
AskPredicted(t, resp) ==
  Done(t, Result("hf", Bool(TRUE), NormalizeClientReply(resp), Undef, Debug(Null, Null)))

\* lines 75-93 with 149-161: the k-th POST has settled
AskProbed(c, t) ==
  LET rep == SpaceReply(c.space, EndpointOf(t.k), PayloadOf(t.k))
      log == Arr(Attempts("ask", c.space, t.k))
  IN IF Is2xx(rep.status)
     THEN Done(t, Result("hf", Bool(TRUE), NormalizeHttpReply(rep.data), Undef,
                         Debug(t.cerr, log)))
     ELSE IF t.k < NumProbes("ask") THEN [Await(t, "probe") EXCEPT !.k = t.k + 1]
     ELSE Done(t, Result("hf", Bool(FALSE), Undef, Str("HF calls failed"),
                         Debug(t.cerr, log)))

\* lines 165-183: the openai entry
AskOpenAIStart(c, t) ==
  IF ~c.openaiKey
  THEN Done(t, Result("openai", Bool(FALSE), Undef, Str("OPENAI_API_KEY not configured"), Undef))
  ELSE Await(t, "http")
AskOpenAISettled(t, rep) ==
  IF Is2xx(rep.status)
  THEN Done(t, Result("openai", Bool(TRUE), OpenAIText(rep.data), Undef, Undef))
  ELSE Done(t, Result("openai", Bool(FALSE), Undef,
                      IF HasResponse(AxiosErrorOf(rep)) THEN JSONstringify(rep.data)
                      ELSE Str(ErrText(AxiosErrorOf(rep))),
                      Undef))

\* lines 122-187: the loop reaches an entry
AskEnter(c, t) ==
  IF t.model = "hf" THEN [t EXCEPT !.pc = "import"]
  ELSE IF t.model = "openai" THEN AskOpenAIStart(c, t)
  ELSE Done(t, UnknownModel(t.model))

RECURSIVE AskLoop(_, _, _)
\* for (const model of models): runs until an entry awaits, throws, or the list ends
AskLoop(c, ts, i) ==
  IF i > Len(ts) THEN ts
  ELSE IF ts[i].pc = "done" THEN AskLoop(c, ts, i + 1)
  ELSE IF ts[i].pc = "init" THEN AskLoop(c, [ts EXCEPT ![i] = AskEnter(c, ts[i])], i)
  ELSE ts

(***************************************************************************)
(* The revisions that map the models list to promises (part_000, part_001).*)
(***************************************************************************)
\* .catch(err => ({ model, ok: false, error: String(err.message || err) }))
\* the callback itself throws when err is undefined: the promise then rejects
TaskCatch(t, err, debug) ==
  IF Readable(err) THEN Done(t, Result(t.model, Bool(FALSE), Undef, Str(ErrText(err)), debug))
  ELSE Rejected(t)

\* src/unnamed/part_000:42-55, callHfChat after getClient() and predict
callHfChat(t, res) == Done(t, Result("hf", Bool(TRUE), NormalizeChatReply(res), Undef, Undef))

\* the key test left out
callOpenAIUnchecked(c, t) == Await(t, "http")
\* callOpenAI of part_000:57-70 and part_001:215-221, up to its await
callOpenAI(c, t) ==
  IF ~c.openaiKey THEN TaskCatch(t, Err("OPENAI_API_KEY not configured"), Undef)
  ELSE Await(t, "http")

\* src/unnamed/part_001:65-72, callGemini up to its await
callGemini(c, t) ==
  IF ~c.gemini THEN TaskCatch(t, Err("GOOGLE_API_ENDPOINT not configured for Gemini"), Undef)
  ELSE Await(t, "http")

\* callHfSpace of part_001:27-42 (one POST) and part_001:164-213 (the probes), up
\* to the first await
callHfSpace(h, c, t) ==
  IF c.space = "unset" THEN TaskCatch(t, Err("HF_SPACE_URL not configured"), Undef)
  ELSE IF h = "part001a" THEN Await(t, "http")
  ELSE [Await(t, "probe") EXCEPT !.k = 1]

\* the return inside the loop left out: the loop runs to its end and only the
\* last attempt decides
SpaceProbedToTheEnd(c, t) ==
  LET rep == SpaceReply(c.space, EndpointOf(t.k), PayloadOf(t.k))
      attempt == tryPost(t.k, rep)
  IN IF t.k < NumProbes("part001b") THEN [Await(t, "probe") EXCEPT !.k = t.k + 1]
     ELSE IF attempt.ok /\ Is2xx(rep.status)
     THEN Done(t, Result("hf", Bool(TRUE), NormalizeHttpReply(attempt.data), Undef, Undef))
     ELSE TaskCatch(t, Err("No working HF endpoint found. See attempts."),
                    Arr(Attempts("part001b", c.space, t.k)))
\* src/unnamed/part_001:190-212 with 237-239: the k-th tryPost has returned
SpaceProbed(c, t) ==
  LET rep == SpaceReply(c.space, EndpointOf(t.k), PayloadOf(t.k))
      attempt == tryPost(t.k, rep)
  IN IF attempt.ok /\ Is2xx(rep.status)
     THEN Done(t, Result("hf", Bool(TRUE), NormalizeHttpReply(attempt.data), Undef, Undef))
     ELSE IF t.k < NumProbes("part001b") THEN [Await(t, "probe") EXCEPT !.k = t.k + 1]
     ELSE TaskCatch(t, Err("No working HF endpoint found. See attempts."),
                    Arr(Attempts("part001b", c.space, t.k)))

\* the one axios.post of a backend has settled with rep
\* (first revision of part_001: the fulfilled value is kept raw under `result`)
PostSettled(h, t, rep) ==
  IF ~Is2xx(rep.status) THEN TaskCatch(t, AxiosErrorOf(rep), Undef)
  ELSE IF h = "part001a"
       THEN Done(t, Result(t.model, Bool(TRUE),
                           IF t.model = "hf" THEN RawSpaceReply(rep.data)
                           ELSE IF t.model = "openai" THEN OpenAIText(rep.data)
                           ELSE rep.data,
                           Undef, Undef))
       ELSE Done(t, Result(t.model, Bool(TRUE), OpenAIText(rep.data), Undef, Undef))

\* line 15 of getClient left out: the cached client is never looked at
StartTaskNoCache(h, c, gc, t) ==
  IF t.model = "hf"
  THEN IF h = "part000" THEN [t EXCEPT !.pc = "client"] ELSE callHfSpace(h, c, t)
  ELSE IF t.model = "openai" THEN callOpenAI(c, t)
  ELSE IF t.model = "gemini" /\ h = "part001a" THEN callGemini(c, t)
  ELSE Done(t, UnknownModel(t.model))
\* the final return left out: an unknown identifier falls into the last branch
StartTaskNoDefault(h, c, gc, t) ==
  IF t.model = "hf"
  THEN IF h = "part000"
       THEN (IF gc THEN Await(t, "predict") ELSE [t EXCEPT !.pc = "client"])
       ELSE callHfSpace(h, c, t)
  ELSE callOpenAI(c, t)
\* models.map(m => ...): the promise of one entry, run up to its first await;
\* gc: the cached gradioClient exists
StartTask(h, c, gc, t) ==
  IF t.model = "hf"
  THEN IF h = "part000"
       THEN (IF gc THEN Await(t, "predict") ELSE [t EXCEPT !.pc = "client"])
       ELSE callHfSpace(h, c, t)
  ELSE IF t.model = "openai" THEN callOpenAI(c, t)
  ELSE IF t.model = "gemini" /\ h = "part001a" THEN callGemini(c, t)
  ELSE Done(t, UnknownModel(t.model))

(***************************************************************************)
(* Responses.                                                              *)
(***************************************************************************)
NoResp == [status |-> 0, kind |-> "none"]
UsageNote(h) ==
  IF h = "ask" THEN "POST JSON {query:\"...\"}"
  ELSE IF h = "part000" THEN "POST /api/ask with JSON {query: \"...\", models: [\"hf\"] }"
  ELSE "POST JSON {query:\"...\", models:[\"hf\",\"openai\"]}"
Health(h) == [status |-> 200, kind |-> "health", ok |-> "ok", note |-> UsageNote(h)]
MethodNotAllowed == [status |-> 405, kind |-> "error", error |-> "Method not allowed, use POST"]
BadRequest == [status |-> 400, kind |-> "error", error |-> "Body must be JSON with a \"query\" string"]
\* part_000:102 and part_001:112
InternalError(h, err) ==
  [status |-> 500, kind |-> "error",
   error |-> IF h = "part000" THEN ErrText(err) ELSE "Internal error"]

\* src/unnamed/part_001:116-128
Normalized(r) ==
  IF r.ok.v THEN Result(r.model, Undef, NormalizeResult(r.text), Undef, Undef)
  ELSE Result(r.model, Undef, Undef, r.error, Undef)

\* the settled entries collected as they settled: not what the code does
ResultsAsSettled(h, rq) ==
  [i \in 1..Len(rq.tasks) |->
     IF h = "part001a" THEN Normalized(rq.tasks[rq.order[i]].res)
     ELSE rq.tasks[rq.order[i]].res]
\* results of ask.js (pushed as the loop goes), of await Promise.all(tasks)
\* (in the order of tasks), normalized in the first revision of part_001
Results(h, rq) ==
  [i \in 1..Len(rq.tasks) |->
     IF h = "part001a" THEN Normalized(rq.tasks[i].res) ELSE rq.tasks[i].res]
\* res.json({ query, results, timestamp })
Envelope(h, rq) ==
  [status |-> 200, kind |-> "envelope", query |-> rq.query, results |-> Results(h, rq)]

AllDone(ts) == \A i \in 1..Len(ts) : ts[i].pc = "done"
Range(f) == { f[i] : i \in DOMAIN f }

RECURSIVE Settled(_, _, _)
\* the order in which the entries settled, extended by those that settled in
\* this turn (their reactions run in the order of the list)
Settled(order, ts, i) ==
  IF i > Len(ts) THEN order
  ELSE IF ts[i].pc \in {"done", "rejected"} /\ i \notin Range(order)
       THEN Settled(Append(order, i), ts, i + 1)
       ELSE Settled(order, ts, i + 1)
SomeRejected(ts) == \E i \in 1..Len(ts) : ts[i].pc = "rejected"

\* The handler's own continuation after the entries of rq moved: ask.js goes on
\* with its loop; the others resume from `await Promise.all(tasks)`.
React(h, c, rq) ==
  IF rq.st # "running" THEN [rq EXCEPT !.order = Settled(rq.order, rq.tasks, 1)]
  ELSE LET ts == IF h = "ask" THEN AskLoop(c, rq.tasks, 1) ELSE rq.tasks
           od == Settled(rq.order, ts, 1)
       IN IF SomeRejected(ts)
          THEN IF h \in {"part000", "part001a"}
               THEN [rq EXCEPT !.tasks = ts, !.order = od, !.st = "responded",
                               !.resp = InternalError(h, TypeErr)]
               ELSE [rq EXCEPT !.tasks = ts, !.order = od, !.st = "crashed"]
          ELSE IF AllDone(ts)
               THEN [rq EXCEPT !.tasks = ts, !.order = od, !.st = "responded",
                               !.resp = Envelope(h, [rq EXCEPT !.tasks = ts, !.order = od])]
               ELSE [rq EXCEPT !.tasks = ts, !.order = od]

(***************************************************************************)
(* State.                                                                  *)
(*   impl, cfg     the deployed revision and its environment               *)
(*   gradioClient  part_000: the cached client exists                      *)
(*   connecting    part_000: "none", or the stage of the shared attempt:   *)
(*                 "import" (awaiting import) or "connect" (Client.connect)*)
(*   connectCalls  how often Client.connect has been invoked               *)
(*   load          requests still to arrive                                *)
(*   req           the request slots                                       *)
(*     st: "idle", "running", "responded", or "crashed" (the handler's     *)
(*         promise rejected and nothing was sent)                          *)
(*     order: the entries in the order in which they settled               *)
(*     leak: a Client.connect or predict call that lost the race against   *)
(*         its timer has not settled yet                                   *)
(***************************************************************************)
VARIABLES impl, cfg, gradioClient, connecting, connectCalls, load, req
vars == <<impl, cfg, gradioClient, connecting, connectCalls, load, req>>

Reqs == 1..NumReqs
Methods == {"GET", "POST", "PUT"}
ModelIds(h) == IF h = "part001a" THEN {"hf", "openai", "gemini", "zz"} ELSE {"hf", "openai", "zz"}
ModelLists(ids) == UNION { [1..n -> ids] : n \in 1..MaxModels }
ModelsInputs(ids) == {Undef, Str("hf"), Arr(<<>>)} \cup { Arr(l) : l \in ModelLists(ids) }
\* the query, prompt and message of the bodies sent
QueryFields ==
  { <<Undef, Undef, Undef>>, <<Str(""), Undef, Undef>>, <<Num(7), Undef, Undef>>,
    <<Num(7), Str("hi"), Undef>>, <<Undef, Undef, Num(7)>>, <<Null, Num(0), Str("")>>,
    <<Str("hello"), Undef, Undef>>, <<Str(""), Str("hi"), Undef>> }
Bodies(h) ==
  {Undef} \cup
  { Body(f[1], f[2], f[3], ms) : f \in QueryFields, ms \in ModelsInputs(ModelIds(h)) }
\* the overlapping requests for the Space
HfBodies == { Body(Str("hello"), Undef, Undef, Arr(l)) : l \in ModelLists({"hf"}) }

IdleReq ==
  [st |-> "idle", method |-> "", body |-> Undef, query |-> Undef, models |-> <<>>,
   tasks |-> <<>>, order |-> <<>>, resp |-> NoResp, leak |-> FALSE]

\* what the network may settle with
Client == [t |-> "client", message |-> "", status |-> 0, data |-> Undef]
ConnectOutcomes == {Client, Err("connect ECONNREFUSED"), NoReason}
ImportOutcomes == {"ok", "noClient", "fail"}
PredictOutcomes ==
  { [ok |-> TRUE, reply |-> x, err |-> NoReason] :
      x \in {Str("hello back"), Obj(Arr(<<Str("a"), Str("b")>>), Undef)} }
  \cup { [ok |-> FALSE, reply |-> Undef, err |-> Err("predict failed")] }
OpenAIReplies ==
  { [status |-> 200, data |-> Obj(Undef, Str("from openai"))],
    [status |-> 200, data |-> Obj(Undef, Undef)],
    [status |-> 401, data |-> Obj(Str("bad key"), Undef)],
    [status |-> 0, data |-> Undef] }
GeminiReplies ==
  { [status |-> 200, data |-> Obj(Str("from gemini"), Undef)],
    [status |-> 0, data |-> Undef] }
\* replies to the one POST of an entry
PostReplies(c, m) ==
  IF m = "hf" THEN {SpaceReply(c.space, 1, 1)}
  ELSE IF m = "openai" THEN OpenAIReplies
  ELSE GeminiReplies

InitProcess ==
  /\ gradioClient = FALSE
  /\ connecting = "none"
  /\ connectCalls = 0
  /\ req = [r \in Reqs |-> IdleReq]

\* a fresh process of any revision and configuration, serving one request
Init ==
  /\ impl \in Impls
  /\ cfg \in Configs(impl)
  /\ load = 1
  /\ InitProcess

(***************************************************************************)
(* A request arrives: the handler runs up to its first await.              *)
(***************************************************************************)
QueryOf(h, b) == IF h = "part001a" THEN DestructureQuery(b) ELSE ExtractQuery(b)

\* every revision serving the list one entry after the other
DispatchInTurn(h, c, gc, ms) == AskLoop(c, [i \in 1..Len(ms) |-> Task(ms[i])], 1)
\* the entries of an accepted request, each run up to its first await
Dispatch(h, c, gc, ms) ==
  IF h = "ask" THEN AskLoop(c, [i \in 1..Len(ms) |-> Task(ms[i])], 1)
  ELSE [i \in 1..Len(ms) |-> StartTask(h, c, gc, Task(ms[i]))]

\* the method test of line 104 left out: any method but GET is served as a POST
handlerAnyMethod(h, c, gc, method, b) ==
  IF method = "GET" /\ h # "part001a"
  THEN [IdleReq EXCEPT !.st = "responded", !.method = method, !.resp = Health(h)]
  ELSE IF ~ValidQuery(QueryOf(h, b))
  THEN [IdleReq EXCEPT !.st = "responded", !.method = method, !.body = b,
                       !.resp = BadRequest]
  ELSE React(h, c, [IdleReq EXCEPT !.st = "running", !.method = method, !.body = b,
                                   !.query = QueryOf(h, b),
                                   !.models = SelectModels(b),
                                   !.tasks = Dispatch(h, c, gc, SelectModels(b))])
\* module.exports = async (req, res) => ..., up to its first await
handler(h, c, gc, method, b) ==
  IF method = "GET" /\ h # "part001a"
  THEN [IdleReq EXCEPT !.st = "responded", !.method = method, !.resp = Health(h)]
  ELSE IF method # "POST"
  THEN [IdleReq EXCEPT !.st = "responded", !.method = method, !.resp = MethodNotAllowed]
  ELSE IF ~ValidQuery(QueryOf(h, b))
  THEN [IdleReq EXCEPT !.st = "responded", !.method = method, !.body = b,
                       !.resp = BadRequest]
  ELSE React(h, c, [IdleReq EXCEPT !.st = "running", !.method = method, !.body = b,
                                   !.query = QueryOf(h, b),
                                   !.models = SelectModels(b),
                                   !.tasks = Dispatch(h, c, gc, SelectModels(b))])

Arrive(r, method, b) ==
  /\ load > 0
  /\ req[r].st = "idle"
  /\ \A q \in Reqs : q < r => req[q].st # "idle"
  /\ load' = load - 1
  /\ req' = [req EXCEPT ![r] = handler(impl, cfg, gradioClient, method, b)]
  \* getClient(): the first caller without a client starts the shared attempt
  /\ connecting' =
       IF /\ impl = "part000" /\ ~gradioClient /\ connecting = "none"
          /\ \E i \in 1..Len(req'[r].tasks) : req'[r].tasks[i].pc = "client"
       THEN "import" ELSE connecting
  /\ UNCHANGED <<impl, cfg, gradioClient, connectCalls>>

Receive ==
  /\ load > 0
  /\ \E r \in Reqs, method \in Methods, b \in Bodies(impl) : Arrive(r, method, b)
ReceiveHf ==
  /\ load > 0
  /\ \E r \in Reqs, b \in HfBodies : Arrive(r, "POST", b)

(***************************************************************************)
(* Events of src/api/ask.js.                                               *)
(***************************************************************************)
\* entry i of request r moves to t2; lk: a timer won and left its call pending
Move(r, i, t2, lk) ==
  req' = [req EXCEPT ![r] = React(impl, cfg,
            [@ EXCEPT !.tasks[i] = t2, !.leak = @ \/ lk])]

At(r, i, pcs) == i \in 1..Len(req[r].tasks) /\ req[r].tasks[i].pc \in pcs

\* tryGetGradioClient, lines 24-32: the import settles before its timer
ImportSettles(r, i, out) ==
  /\ impl = "ask" /\ At(r, i, {"import"})
  /\ IF out = "ok"
     THEN /\ Move(r, i, Await(req[r].tasks[i], "connect1"), FALSE)
          /\ connectCalls' = connectCalls + 1
     ELSE /\ Move(r, i, AskCatch(cfg, req[r].tasks[i],
                    IF out = "noClient" THEN Err("gradio_client_no_Client_export")
                    ELSE Err("import_gradio_failed: Cannot find package")), FALSE)
          /\ UNCHANGED connectCalls
  /\ UNCHANGED <<impl, cfg, gradioClient, connecting, load>>

\* line 28: the timer of the import fires first
ImportTimeout(r, i) ==
  /\ impl = "ask" /\ At(r, i, {"import"})
  /\ Move(r, i, AskCatch(cfg, req[r].tasks[i], Err("import_gradio_timeout")), FALSE)
  /\ UNCHANGED <<impl, cfg, gradioClient, connecting, connectCalls, load>>

\* the retry put in a loop: a failed second attempt sleeps and connects again
ConnectSettlesRetrying(r, i, out) ==
  /\ impl = "ask" /\ At(r, i, {"connect1", "connect2"})
  /\ Move(r, i,
          IF out.t = "client" THEN Await(req[r].tasks[i], "predict")
          ELSE [req[r].tasks[i] EXCEPT !.pc = "sleep"],
          FALSE)
  /\ UNCHANGED <<impl, cfg, gradioClient, connecting, connectCalls, load>>
\* lines 37-49: Client.connect settles before its timer
ConnectSettles(r, i, out) ==
  /\ impl = "ask" /\ At(r, i, {"connect1", "connect2"})
  /\ Move(r, i,
          IF out.t = "client" THEN Await(req[r].tasks[i], "predict")
          ELSE IF req[r].tasks[i].pc = "connect1" THEN [req[r].tasks[i] EXCEPT !.pc = "sleep"]
          ELSE AskCatch(cfg, req[r].tasks[i], out),
          FALSE)
  /\ UNCHANGED <<impl, cfg, gradioClient, connecting, connectCalls, load>>

\* lines 40 and 47: the timer fires first; the call stays pending
ConnectTimeout(r, i) ==
  /\ impl = "ask" /\ At(r, i, {"connect1", "connect2"})
  /\ Move(r, i,
          IF req[r].tasks[i].pc = "connect1" THEN [req[r].tasks[i] EXCEPT !.pc = "sleep"]
          ELSE AskCatch(cfg, req[r].tasks[i], Err("client_connect_timeout_2")),
          TRUE)
  /\ UNCHANGED <<impl, cfg, gradioClient, connecting, connectCalls, load>>

\* lines 44-45: sleep(500) is over, Client.connect is invoked again
SleepDone(r, i) ==
  /\ impl = "ask" /\ At(r, i, {"sleep"})
  /\ Move(r, i, Await(req[r].tasks[i], "connect2"), FALSE)
  /\ connectCalls' = connectCalls + 1
  /\ UNCHANGED <<impl, cfg, gradioClient, connecting, load>>

\* line 132: the timer of predict fires first; the call stays pending
PredictTimeout(r, i) ==
  /\ impl = "ask" /\ At(r, i, {"predict"})
  /\ Move(r, i, AskCatch(cfg, req[r].tasks[i], Err("predict_timeout")), TRUE)
  /\ UNCHANGED <<impl, cfg, gradioClient, connecting, connectCalls, load>>

\* the last call that lost against its timer settles; nobody listens
OrphanSettles(r) ==
  /\ req[r].leak
  /\ req' = [req EXCEPT ![r].leak = FALSE]
  /\ UNCHANGED <<impl, cfg, gradioClient, connecting, connectCalls, load>>

(***************************************************************************)
(* Events shared by the revisions.                                         *)
(***************************************************************************)
\* client.predict('/chat', ...) settles
PredictSettles(r, i, out) ==
  /\ At(r, i, {"predict"})
  /\ Move(r, i,
          IF impl = "ask"
          THEN (IF out.ok THEN AskPredicted(req[r].tasks[i], out.reply)
                ELSE AskCatch(cfg, req[r].tasks[i], out.err))
          ELSE (IF out.ok THEN callHfChat(req[r].tasks[i], out.reply)
                ELSE TaskCatch(req[r].tasks[i], out.err, Undef)),
          FALSE)
  /\ UNCHANGED <<impl, cfg, gradioClient, connecting, connectCalls, load>>

\* the pending axios.post of the probes settles (or runs into axios' timeout)
ProbeSettles(r, i) ==
  /\ At(r, i, {"probe"})
  /\ Move(r, i,
          IF impl = "ask" THEN AskProbed(cfg, req[r].tasks[i])
          ELSE SpaceProbed(cfg, req[r].tasks[i]),
          FALSE)
  /\ UNCHANGED <<impl, cfg, gradioClient, connecting, connectCalls, load>>

\* the one axios.post of an entry settles (or runs into axios' timeout)
PostSettles(r, i, rep) ==
  /\ At(r, i, {"http"})
  /\ rep \in PostReplies(cfg, req[r].tasks[i].model)
  /\ Move(r, i,
          IF impl = "ask" THEN AskOpenAISettled(req[r].tasks[i], rep)
          ELSE PostSettled(impl, req[r].tasks[i], rep),
          FALSE)
  /\ UNCHANGED <<impl, cfg, gradioClient, connecting, connectCalls, load>>

(***************************************************************************)
(* Events of getClient, src/unnamed/part_000:14-40.                        *)
(***************************************************************************)
\* every caller awaiting the shared promise continues with its outcome:
\* callHfChat goes on to client.predict, or the catch of line 88 runs
Waiters(out) ==
  [r \in Reqs |->
     React(impl, cfg,
       [req[r] EXCEPT !.tasks =
          [i \in 1..Len(req[r].tasks) |->
             IF req[r].tasks[i].pc # "client" THEN req[r].tasks[i]
             ELSE IF out.t = "client" THEN Await(req[r].tasks[i], "predict")
             ELSE TaskCatch(req[r].tasks[i], out, Undef)]])]

\* lines 24-29: the import settles; on success Client.connect is invoked
SharedImportSettles(out) ==
  /\ impl = "part000" /\ connecting = "import"
  /\ IF out = "ok"
     THEN /\ connecting' = "connect"
          /\ connectCalls' = connectCalls + 1
          /\ UNCHANGED req
     ELSE /\ connecting' = "none"
          /\ UNCHANGED connectCalls
          /\ req' = Waiters(IF out = "noClient"
                             THEN Err("@gradio/client did not export Client")
                             ELSE Err("Cannot find package"))
  /\ UNCHANGED <<impl, cfg, gradioClient, load>>

\* line 34 left out: after a failure `connecting` keeps the rejected promise
SharedConnectSettlesStuck(out) ==
  /\ impl = "part000" /\ connecting = "connect"
  /\ connecting' = IF out.t = "client" THEN "none" ELSE connecting
  /\ IF out.t = "client"
     THEN gradioClient' = TRUE
     ELSE UNCHANGED gradioClient
  /\ req' = Waiters(out)
  /\ UNCHANGED <<impl, cfg, connectCalls, load>>
\* lines 29-36: Client.connect settles
SharedConnectSettles(out) ==
  /\ impl = "part000" /\ connecting = "connect"
  /\ connecting' = "none"
  /\ IF out.t = "client"
     THEN gradioClient' = TRUE
     ELSE UNCHANGED gradioClient
  /\ req' = Waiters(out)
  /\ UNCHANGED <<impl, cfg, connectCalls, load>>

Next ==
  \/ Receive
  \/ \E r \in Reqs, i \in 1..MaxModels :
       \/ \E out \in ImportOutcomes : ImportSettles(r, i, out)
       \/ ImportTimeout(r, i)
       \/ \E out \in ConnectOutcomes : ConnectSettles(r, i, out)
       \/ ConnectTimeout(r, i)
       \/ SleepDone(r, i)
       \/ \E out \in PredictOutcomes : PredictSettles(r, i, out)
       \/ PredictTimeout(r, i)
       \/ ProbeSettles(r, i)
       \/ \E rep \in OpenAIReplies \cup GeminiReplies \cup {SpaceReply(cfg.space, 1, 1)} :
            PostSettles(r, i, rep)
  \/ \E r \in Reqs : OrphanSettles(r)
  \/ \E out \in ImportOutcomes : SharedImportSettles(out)
  \/ \E out \in ConnectOutcomes : SharedConnectSettles(out)

Spec == Init /\ [][Next]_vars

(***************************************************************************)
(* One process of ask.js or part_000 serving NumReqs overlapping requests  *)
(* for the Space (no HF_SPACE_URL, no OpenAI key).                         *)
(***************************************************************************)
InitConc ==
  /\ impl \in {"ask", "part000"}
  /\ cfg = [space |-> "unset", openaiKey |-> FALSE, gemini |-> FALSE]
  /\ load = NumReqs
  /\ InitProcess

NextConc ==
  \/ ReceiveHf
  \/ \E r \in Reqs, i \in 1..MaxModels :
       \/ \E out \in ImportOutcomes : ImportSettles(r, i, out)
       \/ ImportTimeout(r, i)
       \/ \E out \in ConnectOutcomes : ConnectSettles(r, i, out)
       \/ ConnectTimeout(r, i)
       \/ SleepDone(r, i)
       \/ \E out \in PredictOutcomes : PredictSettles(r, i, out)
       \/ PredictTimeout(r, i)
  \/ \E r \in Reqs : OrphanSettles(r)
  \/ \E out \in ImportOutcomes : SharedImportSettles(out)
  \/ \E out \in ConnectOutcomes : SharedConnectSettles(out)

SpecConc == InitConc /\ [][NextConc]_vars

(***************************************************************************)
(* What the scheduling guarantees: a timer that is set fires, sleep(500)   *)
(* ends, and axios.post settles (it carries its own timeout).  Nothing     *)
(* makes import(), Client.connect or client.predict settle.                *)
(***************************************************************************)
Guaranteed ==
  \E r \in Reqs, i \in 1..MaxModels :
    \/ ImportTimeout(r, i)
    \/ ConnectTimeout(r, i)
    \/ SleepDone(r, i)
    \/ PredictTimeout(r, i)
    \/ ProbeSettles(r, i)
    \/ \E rep \in OpenAIReplies \cup GeminiReplies \cup {SpaceReply(cfg.space, 1, 1)} :
         PostSettles(r, i, rep)

FairSpec == Spec /\ WF_vars(Guaranteed)

(***************************************************************************)
(* A fresh process of any revision receiving one POST whose query, prompt  *)
(* and message are each absent, null, empty, zero, a number or a string    *)
(* (no HF_SPACE_URL, no OpenAI key; the request asks for "openai" or       *)
(* leaves the models out).                                                 *)
(***************************************************************************)
FieldValues(name) == {Undef, Null, Str(""), Num(0), Num(7), Str(name)}
QueryBodies ==
  {Undef} \cup
  { Body(q, p, m, ms) : q \in FieldValues("q"), p \in FieldValues("p"),
                        m \in FieldValues("m"), ms \in {Undef, Arr(<<"openai">>)} }

InitQuery ==
  /\ impl \in Impls
  /\ cfg = [space |-> "unset", openaiKey |-> FALSE, gemini |-> FALSE]
  /\ load = 1
  /\ InitProcess

ReceiveQuery ==
  /\ load > 0
  /\ \E r \in Reqs, b \in QueryBodies : Arrive(r, "POST", b)

SpecQuery == InitQuery /\ [][ReceiveQuery]_vars

(***************************************************************************)
(* A fresh process of a revision that asks the Space, and a Space that     *)
(* gives one shape of reply whichever way it is asked: client.predict and  *)
(* the HTTP probes receive the same value.                                 *)
(***************************************************************************)
InitReply ==
  /\ impl \in {"ask", "part000", "part001b"}
  /\ cfg \in { [space |-> s, openaiKey |-> FALSE, gemini |-> FALSE] : s \in DOMAIN ReplyShapes }
  /\ load = 1
  /\ InitProcess

NextReply ==
  \/ ReceiveHf
  \/ \E r \in Reqs, i \in 1..MaxModels :
       \/ \E out \in {"ok", "fail"} : ImportSettles(r, i, out)
       \/ ConnectSettles(r, i, Client)
       \/ PredictSettles(r, i, [ok |-> TRUE, reply |-> ReplyShapes[cfg.space], err |-> NoReason])
       \/ ProbeSettles(r, i)
  \/ SharedImportSettles("ok")
  \/ SharedConnectSettles(Client)

SpecReply == InitReply /\ [][NextReply]_vars

(***************************************************************************)
(* Properties.                                                             *)
(***************************************************************************)
Accepted(r) ==
  /\ req[r].st # "idle"
  /\ req[r].method = "POST"
  /\ ValidQuery(QueryOf(impl, req[r].body))
Enveloped(r) == req[r].st = "responded" /\ req[r].resp.kind = "envelope"
Pending(t) == t.pc \notin {"init", "done", "rejected"}
Failed(res) == res.ok = Bool(FALSE)
NonEmptyString(x) == x.t = "string" /\ x.v # ""

\* C1: the envelope of a POST with a valid query has one result per entry of
\* the models list, results[i].model = models[i], in whatever order the
\* backend calls settled.
ResultsFollowModels ==
  \A r \in Reqs :
    Enveloped(r) =>
      /\ Len(req[r].resp.results) = Len(SelectModels(req[r].body))
      /\ \A i \in 1..Len(SelectModels(req[r].body)) :
           req[r].resp.results[i].model = SelectModels(req[r].body)[i]

\* C1 witness: an envelope for two different backends of which the second
\* settled first
SecondSettledFirst ==
  \E r \in Reqs :
    /\ Enveloped(r)
    /\ Len(req[r].models) = 2
    /\ req[r].models[1] # req[r].models[2]
    /\ req[r].order = <<2, 1>>

\* Client.connect calls in flight that some caller awaits
ConnectsInFlight ==
  (IF connecting = "connect" THEN 1 ELSE 0)
  + Cardinality({ ri \in Reqs \X (1..MaxModels) :
                    At(ri[1], ri[2], {"connect1", "connect2"}) })

\* C2: requests for "hf" that overlap while no connection exists share one
\* connection attempt: at most one Client.connect is in flight at any time.
SingleConnectInFlight == ConnectsInFlight <= 1

\* C3: whichever backends fail, a POST with a valid query ends with HTTP 200
\* and the full envelope, every failed backend as ok:false with a non-empty
\* error (ask.js, part_000).
FailureStaysLocal ==
  impl \in {"ask", "part000"} =>
    \A r \in Reqs :
      (Accepted(r) /\ req[r].st # "running") =>
        /\ Enveloped(r)
        /\ req[r].resp.status = 200
        /\ Len(req[r].resp.results) = Len(req[r].models)
        /\ \A i \in 1..Len(req[r].resp.results) :
             \/ req[r].resp.results[i].ok = Bool(TRUE)
             \/ /\ Failed(req[r].resp.results[i])
                /\ NonEmptyString(req[r].resp.results[i].error)

Recognized(h) == IF h = "part001a" THEN {"hf", "openai", "gemini"} ELSE {"hf", "openai"}
IsUnknownRecord(res, m) ==
  /\ res.model = m
  /\ res.ok = Bool(FALSE)
  /\ res.error = Str("unknown model")
  /\ res.text = Undef

\* C4: an entry with an unrecognized identifier is answered at its position
\* with {model, ok:false, error:"unknown model"}, and no network call is ever
\* started for it (ask.js, part_000 and the second revision of part_001).
UnknownModelIsLocal ==
  impl \in {"ask", "part000", "part001b"} =>
    \A r \in Reqs : \A i \in 1..Len(req[r].tasks) :
      req[r].models[i] \notin Recognized(impl) =>
        /\ req[r].tasks[i].net = 0
        /\ req[r].tasks[i].pc \in {"init", "done"}
        /\ req[r].tasks[i].pc = "done" => IsUnknownRecord(req[r].tasks[i].res, req[r].models[i])
        /\ Enveloped(r) => IsUnknownRecord(req[r].resp.results[i], req[r].models[i])

\* C4 witness: the envelope for ["hf", "zz"] with the Space answering
HfThenUnknown ==
  \E r \in Reqs :
    /\ impl \in {"ask", "part000", "part001b"}
    /\ Enveloped(r)
    /\ req[r].models = <<"hf", "zz">>
    /\ req[r].resp.results[1].ok = Bool(TRUE)
    /\ req[r].resp.results[2].error = Str("unknown model")

NoAlias(b) ==
  /\ BodyOrEmpty(b).query = Undef
  /\ BodyOrEmpty(b).prompt = Undef
  /\ BodyOrEmpty(b).message = Undef

\* C5: a POST without query, prompt and message, or whose extracted query is
\* not a string, is answered 400 with the error body, and no backend call is
\* started for it.
MissingQueryIs400 ==
  \A r \in Reqs :
    ( /\ req[r].st # "idle"
      /\ req[r].method = "POST"
      /\ NoAlias(req[r].body) \/ QueryOf(impl, req[r].body).t # "string" ) =>
      /\ req[r].st = "responded"
      /\ req[r].resp.status = 400
      /\ req[r].resp.error = "Body must be JSON with a \"query\" string"
      /\ req[r].tasks = <<>>
      /\ connecting = "none" /\ connectCalls = 0

\* C5 witness: a rejected POST that names models but no query
NoQueryButModels ==
  \E r \in Reqs :
    /\ req[r].method = "POST"
    /\ NoAlias(req[r].body)
    /\ BodyOrEmpty(req[r].body).models = Arr(<<"hf", "openai">>)
    /\ req[r].resp.status = 400

\* C6: in every revision a GET is answered 200 with {status:"ok", note} and
\* touches no backend.
GetIsHealth ==
  \A r \in Reqs :
    (req[r].st # "idle" /\ req[r].method = "GET") =>
      /\ req[r].resp.status = 200
      /\ req[r].resp.kind = "health"
      /\ req[r].tasks = <<>>

\* C7: without OPENAI_API_KEY, models:["openai"] is answered with exactly one
\* result {model:"openai", ok:false, error: the configuration error}, and no
\* HTTP call is issued (ask.js, part_000 and the second revision of part_001).
MissingKeyIsLocal ==
  (impl \in {"ask", "part000", "part001b"} /\ ~cfg.openaiKey) =>
    \A r \in Reqs :
      (Accepted(r) /\ SelectModels(req[r].body) = <<"openai">>) =>
        /\ Enveloped(r)
        /\ req[r].resp.status = 200
        /\ Len(req[r].resp.results) = 1
        /\ req[r].resp.results[1].model = "openai"
        /\ req[r].resp.results[1].ok = Bool(FALSE)
        /\ req[r].resp.results[1].error = Str("OPENAI_API_KEY not configured")
        /\ req[r].tasks[1].net = 0

\* C7 witness: such a request has been answered
OpenAIWithoutKey ==
  \E r \in Reqs :
    /\ impl \in {"ask", "part000", "part001b"} /\ ~cfg.openaiKey
    /\ Accepted(r) /\ req[r].models = <<"openai">>
    /\ Enveloped(r)

\* C8: the handler never throws past its boundary: an exception outside the
\* per-backend catch blocks is answered with HTTP 500.
HandlerNeverRejects ==
  \A r \in Reqs :
    /\ req[r].st # "crashed"
    /\ (req[r].st # "running" /\ SomeRejected(req[r].tasks)) => req[r].resp.status = 500

\* C9: every network call is bounded by a timeout, so the handling of every
\* POST with a valid query comes to an end even when a backend call never
\* settles (an answer is sent; the rejected handler of C8 counts as an end).
EveryPostAnswered ==
  \A r \in Reqs : (req[r].st = "running") ~> (req[r].st \in {"responded", "crashed"})

\* C10 as stated: whenever the handler of a request is waiting, every entry of
\* its models list has been started; the envelope is sent when all have settled.
AllStartedBeforeWaiting ==
  \A r \in Reqs :
    /\ req[r].st = "running" => \A i \in 1..Len(req[r].tasks) : req[r].tasks[i].pc # "init"
    /\ Enveloped(r) => AllDone(req[r].tasks)

\* C10 amended: part_000 and both revisions of part_001 start every entry
\* before the handler waits; ask.js starts an entry only when all entries
\* before it have settled; in every revision the envelope is sent only when
\* all entries have settled.
StartedTogetherOrInTurn ==
  \A r \in Reqs :
    /\ (req[r].st = "running" /\ impl # "ask") =>
         \A i \in 1..Len(req[r].tasks) : req[r].tasks[i].pc # "init"
    /\ impl = "ask" =>
         \A i, j \in 1..Len(req[r].tasks) :
           (i < j /\ req[r].tasks[j].pc # "init") => req[r].tasks[i].pc = "done"
    /\ Enveloped(r) => AllDone(req[r].tasks)

\* C10 witness: two backend calls of one request pending at the same time
TwoCallsPending ==
  \E r \in Reqs :
    /\ req[r].st = "running"
    /\ Len(req[r].tasks) = 2
    /\ Pending(req[r].tasks[1]) /\ Pending(req[r].tasks[2])

\* C11: when the models field of an accepted POST is absent, an empty list or
\* not a list, exactly one entry, for "hf", is dispatched and the envelope's
\* results has exactly one entry, with model "hf".
DefaultsToHf ==
  \A r \in Reqs :
    (Accepted(r) /\ ~NonEmptyArray(BodyOrEmpty(req[r].body).models)) =>
      /\ Len(req[r].tasks) = 1
      /\ req[r].tasks[1].model = "hf"
      /\ Enveloped(r) =>
           /\ Len(req[r].resp.results) = 1
           /\ req[r].resp.results[1].model = "hf"

\* C11 witness: an envelope for a request whose models is the empty list
EmptyListAnswered ==
  \E r \in Reqs :
    /\ Accepted(r) /\ Enveloped(r)
    /\ BodyOrEmpty(req[r].body).models = Arr(<<>>)

Present(x) == x.t \notin {"undefined", "null"}
FirstPresent(b) ==
  IF Present(BodyOrEmpty(b).query) THEN BodyOrEmpty(b).query
  ELSE IF Present(BodyOrEmpty(b).prompt) THEN BodyOrEmpty(b).prompt
  ELSE BodyOrEmpty(b).message
FirstTruthy(b) ==
  IF Truthy(BodyOrEmpty(b).query) THEN BodyOrEmpty(b).query
  ELSE IF Truthy(BodyOrEmpty(b).prompt) THEN BodyOrEmpty(b).prompt
  ELSE BodyOrEmpty(b).message
\* a POST is accepted, with v echoed as the envelope's query, exactly when v
\* is a non-empty string, and answered 400 otherwise
AcceptedExactlyFor(r, v) ==
  IF NonEmptyString(v)
  THEN /\ req[r].resp.status # 400
       /\ req[r].query = v
       /\ Enveloped(r) => req[r].resp.query = v
  ELSE /\ req[r].st = "responded"
       /\ req[r].resp.status = 400

OtherMethodIs405 ==
  \A r \in Reqs :
    (req[r].st # "idle" /\ req[r].method \notin {"GET", "POST"}) =>
      /\ req[r].st = "responded"
      /\ req[r].resp.status = 405
      /\ req[r].resp.error = "Method not allowed, use POST"
      /\ req[r].body = Undef /\ req[r].query = Undef
      /\ req[r].tasks = <<>>
      /\ connecting = "none" /\ connectCalls = 0

\* C13 witness: a PUT has been answered
PutAnswered ==
  \E r \in Reqs : req[r].method = "PUT" /\ req[r].st = "responded"

\* the reply to the j-th pair when the endpoints are the outer loop and the six
\* payload shapes the inner one
ProbeReply(j) == SpaceReply(cfg.space, ((j - 1) \div 6) + 1, ((j - 1) % 6) + 1)
\* the entry was answered by the HTTP probes
AnsweredByProbe(t) ==
  t.model = "hf" /\ t.k > 0 /\ t.pc = "done" /\ t.res.ok = Bool(TRUE)

\* C14: the probes are POSTed one at a time, endpoints in the outer loop and
\* payload shapes in the inner one; no probe is issued after one that returned
\* 2xx, and the text returned is the normalization of that reply.
ProbesStopAtFirst2xx ==
  \A r \in Reqs : \A i \in 1..Len(req[r].tasks) :
    LET t == req[r].tasks[i]
    IN (t.model = "hf" /\ t.k > 0) =>
         /\ \A j \in 1..(t.k - 1) : ~Is2xx(ProbeReply(j).status)
         /\ impl = "part001b" => t.net = t.k
         /\ AnsweredByProbe(t) =>
              /\ Is2xx(ProbeReply(t.k).status)
              /\ t.res.text = NormalizeHttpReply(ProbeReply(t.k).data)
         /\ (t.pc = "done" /\ t.res.ok = Bool(FALSE)) =>
              ~Is2xx(ProbeReply(t.k).status)

\* C14 witness: a Space that accepts only {message} on /api/predict is answered
\* by the eleventh POST
EleventhProbeAnswers ==
  \E r \in Reqs : \E i \in 1..Len(req[r].tasks) :
    /\ cfg.space = "chat"
    /\ AnsweredByProbe(req[r].tasks[i])
    /\ req[r].tasks[i].k = 11
    /\ req[r].tasks[i].res.text = Str("plain answer")
    /\ Enveloped(r)

\* the list of attempts the hf result carries
AttemptLog(res) == IF impl = "ask" THEN res.debug.http_attempts ELSE res.debug
\* the entry went through the probes and none was answered
Exhausted(t) ==
  t.model = "hf" /\ t.k > 0 /\ t.pc = "done" /\ t.res.ok = Bool(FALSE)

\* C15: when every probe fails, the hf result is ok:false and its debug field
\* carries the list of attempts: one per (endpoint, payload) pair (18 in
\* ask.js, 30 in part_001), in the order tried, each with the URL, the status
\* (null when no response arrived) and the error body.
ExhaustionListsEveryAttempt ==
  \A r \in Reqs : \A i \in 1..Len(req[r].tasks) :
    Exhausted(req[r].tasks[i]) =>
      LET log == AttemptLog(req[r].tasks[i].res)
      IN /\ log.t = "array"
         /\ Len(log.v) = IF impl = "ask" THEN 18 ELSE 30
         /\ \A j \in 1..Len(log.v) :
              /\ log.v[j].ok = FALSE
              /\ log.v[j].url = "https://space.hf.space" \o EndpointPaths[((j - 1) \div 6) + 1]
              /\ log.v[j].status =
                   IF ProbeReply(j).status = 0 THEN Null ELSE Num(ProbeReply(j).status)
              /\ log.v[j].error =
                   IF ProbeReply(j).status = 0 THEN Str("Network Error")
                   ELSE IF impl = "ask" THEN ProbeReply(j).data
                   ELSE JSONstringify(ProbeReply(j).data)
         /\ Enveloped(r) => req[r].resp.results[i] = req[r].tasks[i].res

\* C15 witness: the envelope of a request whose probes were all answered 404
AllProbesAnswered404 ==
  \E r \in Reqs : \E i \in 1..Len(req[r].tasks) :
    /\ cfg.space = "gone"
    /\ Exhausted(req[r].tasks[i])
    /\ Enveloped(r)
    /\ AttemptLog(req[r].resp.results[i]).v[1].status = Num(404)

\* hf entries of all requests that the loop of ask.js has reached
HfEntriesReached ==
  { ri \in Reqs \X (1..MaxModels) :
      /\ ri[2] \in 1..Len(req[ri[1]].tasks)
      /\ req[ri[1]].tasks[ri[2]].model = "hf"
      /\ req[ri[1]].tasks[ri[2]].pc # "init" }
\* one step of an entry through tryGetGradioClient, from stage a to stage b
RetryStep(a, b, cerr) ==
  /\ (b = "connect2" /\ a # b) => a = "sleep"
  /\ (b = "sleep" /\ a # b) => a = "connect1"
  /\ a = "sleep" => b \in {"sleep", "connect2"}
  /\ a = "connect2" => b \in {"connect2", "predict", "probe", "done", "rejected"}
  /\ (a = "connect2" /\ b \in {"probe", "done"}) => cerr # Null

\* C16: within one call of tryGetGradioClient Client.connect is invoked at most
\* twice; the second invocation follows the failure or timeout of the first
\* and the delay; when the second fails the error goes to the caller and
\* nothing is retried.
ConnectRetriedOnce ==
  /\ [](impl = "ask" => connectCalls <= 2 * Cardinality(HfEntriesReached))
  /\ [][ impl = "ask" =>
           /\ connectCalls' <= connectCalls + 1
           /\ \A r \in Reqs :
                \A i \in (1..Len(req[r].tasks)) \cap (1..Len(req'[r].tasks)) :
                  RetryStep(req[r].tasks[i].pc, req'[r].tasks[i].pc, req'[r].tasks[i].cerr)
           /\ connectCalls' # connectCalls =>
                \E r \in Reqs : \E i \in (1..Len(req[r].tasks)) \cap (1..Len(req'[r].tasks)) :
                  /\ req'[r].tasks[i].pc \in {"connect1", "connect2"}
                  /\ req[r].tasks[i].pc \in {"import", "sleep"} ]_vars

\* C16 witness: both attempts of one call have failed, the second by its timer
SecondConnectTimedOut ==
  \E r \in Reqs : \E i \in 1..Len(req[r].tasks) :
    /\ impl = "ask"
    /\ req[r].tasks[i].cerr = Str("client_connect_timeout_2")
    /\ connectCalls = 2

\* the fallback of ask.js failed for want of HF_SPACE_URL
FallbackNotConfigured(t) ==
  /\ cfg.space = "unset"
  /\ t.pc = "done"
  /\ t.res.debug.http_attempts = Str("Error: HF_SPACE_URL not configured for HTTP fallback")

\* C17: in ask.js the HTTP probes are a fallback of the client library: no
\* probe is issued unless connect or predict has failed or timed out; once
\* that happened the fallback runs (it probes, or fails at once when
\* HF_SPACE_URL is not configured); the hf result is ok:false only when both
\* strategies have failed.
ProbesOnlyAfterClientFailed ==
  impl = "ask" =>
    \A r \in Reqs : \A i \in 1..Len(req[r].tasks) :
      LET t == req[r].tasks[i]
      IN t.model = "hf" =>
           /\ t.k > 0 => t.cerr # Null
           /\ (t.pc = "done" /\ t.cerr = Null) => (t.k = 0 /\ t.res.ok = Bool(TRUE))
           /\ t.pc \in {"done", "rejected"} =>
                \/ t.pc = "done" /\ t.cerr = Null
                \/ t.k > 0
                \/ FallbackNotConfigured(t)
           /\ (t.pc = "done" /\ t.res.ok = Bool(FALSE)) =>
                /\ t.cerr # Null
                /\ FallbackNotConfigured(t) \/ Exhausted(t)

\* no caller of getClient is waiting for the shared attempt
NobodyAwaitsClient ==
  \A r \in Reqs : \A i \in 1..Len(req[r].tasks) : req[r].tasks[i].pc # "client"

\* one step of the handle: connected stays connected, and it is reached only
\* from connecting
HandleStep ==
  /\ gradioClient => (gradioClient' /\ connectCalls' = connectCalls /\ connecting' = "none")
  /\ (~gradioClient /\ gradioClient') => connecting = "connect"
  /\ (connecting = "none" /\ connecting' # "none") => connecting' = "import"
  /\ (connecting = "import" /\ connecting' # "import") => connecting' \in {"connect", "none"}

\* C18: the handle of part_000 goes unconnected -> connecting -> connected;
\* once connected it stays: no later getClient call waits or invokes
\* Client.connect again, and the cached client is never dropped.
CachedClientStays ==
  /\ [](gradioClient => (impl = "part000" /\ connecting = "none" /\ NobodyAwaitsClient))
  /\ [][HandleStep]_vars

\* C18 witness: every request of the process has been answered by the Space
\* and Client.connect was invoked once
OneConnectServedAll ==
  /\ impl = "part000" /\ gradioClient /\ connectCalls = 1 /\ load = 0
  /\ \A r \in Reqs : Enveloped(r) /\ req[r].resp.results[1].ok = Bool(TRUE)

\* the text of a reply by the priority: a string as it is, the first element
\* of a non-empty array in data, a string in data, the JSON text of the reply
ByPriority(x) ==
  IF x.t = "string" THEN x
  ELSE IF IsObject(x) /\ NonEmptyArray(x.data) THEN Str(StringText(x.data.v[1]))
  ELSE IF IsObject(x) /\ x.data.t = "string" THEN x.data
  ELSE Str(JsonText(x))

\* C19: whichever way the Space was asked (client.predict of ask.js or of
\* part_000, or an HTTP probe), the text of an hf result is the reply
\* normalized by the one priority: string, first element of data, string in
\* data, JSON text of the reply; so both normalizations agree on every shape.
ReplyNormalizedAlike ==
  \A r \in Reqs : \A i \in 1..Len(req[r].tasks) :
    ( /\ cfg.space \in DOMAIN ReplyShapes
      /\ req[r].tasks[i].model = "hf"
      /\ req[r].tasks[i].pc = "done"
      /\ req[r].tasks[i].res.ok = Bool(TRUE) ) =>
      req[r].tasks[i].res.text = ByPriority(ReplyShapes[cfg.space])

\* callers of getClient waiting for the shared attempt
AwaitingClient ==
  { ri \in Reqs \X (1..MaxModels) : At(ri[1], ri[2], {"client"}) }
\* the waiter ri has been handed a failure in this step
HandedFailure(ri) ==
  /\ req'[ri[1]].tasks[ri[2]].pc \in {"done", "rejected"}
  /\ req'[ri[1]].tasks[ri[2]].pc = "done" =>
       /\ Failed(req'[ri[1]].tasks[ri[2]].res)
       /\ NonEmptyString(req'[ri[1]].tasks[ri[2]].res.error)
\* one step of part_000 around a failing attempt
FailureStep ==
  /\ ((\E ri \in AwaitingClient : HandedFailure(ri))
         \/ (connecting # "none" /\ connecting' = "none" /\ ~gradioClient')) =>
       /\ connecting' = "none" /\ ~gradioClient'
       /\ connectCalls' = connectCalls
       /\ \A ri \in AwaitingClient : HandedFailure(ri)
       /\ \A ri, qj \in AwaitingClient :
            req'[ri[1]].tasks[ri[2]].res = req'[qj[1]].tasks[qj[2]].res
  /\ \A r \in Reqs :
       ( /\ req[r].st = "idle" /\ connecting = "none"
         /\ \E i \in 1..Len(req'[r].tasks) : req'[r].tasks[i].pc = "client" ) =>
         connecting' = "import"

\* C20: when the shared attempt of part_000 fails, every caller waiting on it
\* is handed the failure and the state is unconnected again (no client, no
\* pending attempt), so that the next caller starts a fresh attempt; a caller
\* waits only while an attempt is pending, and the client and a pending
\* attempt are never both set.
FailedAttemptResets ==
  /\ [](impl = "part000" =>
          /\ ~(gradioClient /\ connecting # "none")
          /\ AwaitingClient # {} => connecting # "none")
  /\ [][impl = "part000" => FailureStep]_vars

\* C20 witness: the first request failed with its attempt, the next one
\* connected afresh and was answered
FreshAttemptAfterFailure ==
  /\ impl = "part000" /\ gradioClient /\ connectCalls = 2
  /\ Enveloped(1) /\ Failed(req[1].resp.results[1])
  /\ Enveloped(2) /\ req[2].resp.results[1].ok = Bool(TRUE)

\* nothing runs on behalf of request r: no entry awaits a call and no call
\* that lost against its timer is still pending
Quiet(r) ==
  /\ ~req[r].leak
  /\ \A i \in 1..Len(req[r].tasks) : ~Pending(req[r].tasks[i])

\* C21: a request is answered once, and once its response has been sent no
\* backend call is running or started on its behalf (stated for every answer
\* but the 500 of a throwing catch, which C3 and C8 are about).
AnsweredOnceThenQuiet ==
  /\ [](\A r \in Reqs :
          (req[r].st = "responded" /\ req[r].resp.status # 500) => Quiet(r))
  /\ [][\A r \in Reqs : req[r].st = "responded" =>
            (req'[r].st = "responded" /\ req'[r].resp = req[r].resp)]_vars

====
